---- MODULE Spec2Model ----
(***************************************************************************)
(* go_handler: the upload endpoint (requestHandler), its admission gate    *)
(* (getRequestError), the per-address limiter registry (ipLimiter), the    *)
(* upload itself (readRequest) and static retrieval (requestHandlerOpen).  *)
(*                                                                         *)
(* Strings are sequences of tokens: a token is one special character       *)
(* ("/", ":", ".", " ", "%") or a run of unreserved characters.  Paths are *)
(* sequences of segments, each segment a string.  File contents and        *)
(* request bodies are sequences of bytes.  The clock counts units of       *)
(* 25 ms.                                                                  *)
(***************************************************************************)
EXTENDS Integers, Sequences, FiniteSets, TLC

\* ------------------------------------------------------------------ bounds
MaxReqs == 2
MaxClock == 3

Reqs == 1..MaxReqs

\* --------------------------------------------------------------- constants
rateLimit == 20
Burst == 1

\* clock units per token: 40 units of 25 ms per second, rateLimit tokens per second
Period == 40 \div rateLimit

NoErr == << >>
NoHeader == << >>

\* ----------------------------------------------------------------- inputs
A1 == <<"10.0.0.1">>
A2 == <<"10.0.0.2">>
A3 == <<"10.0.0.3">>

Methods == {"POST", "GET"}
RemoteAddrs == {A1 \o <<":", "4000">>, A2 \o <<":", "4000">>, A1}
\* a header is the list of its values: absent is the empty list
XRealIps == {NoHeader, << <<"bogus">> >>, << <<"::ffff:", "10.0.0.1">> >>, <<A3>>}
Allowlists == { << >>, <<A1>>, <<A1, A3>> }

Bodies == { <<1>>, <<2, 2>> }
DirD == <<"d">>
DirUp == <<".", ".">>
DirRoute == <<"d", "/", "okkam", "/", "files", "/", "e">>
NameA == <<"a">>
NameUp == <<".", ".">>
NameUpA == <<".", ".", "/", "a">>
DirHeaders == {NoHeader, <<DirD>>, <<DirUp>>, <<DirRoute>>}
FilenameHeaders == {NoHeader, <<NameA>>, <<NameUp>>, <<NameUpA>>}
ReadOutcomes == {"ok", "unexpected EOF"}

\* ---------------------------------------------------------------- strings
RECURSIVE Flatten(_)
Flatten(ss) == IF ss = << >> THEN << >> ELSE Head(ss) \o Flatten(Tail(ss))

RECURSIVE ReplaceAll(_, _)
\* strings.Replace(s, old, "", -1)
ReplaceAll(s, old) ==
    IF Len(s) < Len(old) THEN s
    ELSE IF SubSeq(s, 1, Len(old)) = old
         THEN ReplaceAll(SubSeq(s, Len(old) + 1, Len(s)), old)
         ELSE <<Head(s)>> \o ReplaceAll(Tail(s), old)

HasPrefix(s, p) == Len(s) >= Len(p) /\ SubSeq(s, 1, Len(p)) = p

\* url.PathEscape, token by token
EscapeToken(c) ==
    CASE c = "/" -> "%2F"
      [] c = " " -> "%20"
      [] c = "%" -> "%25"
      [] c = "?" -> "%3F"
      [] OTHER -> c
PathEscape(s) == [i \in 1..Len(s) |-> EscapeToken(s[i])]

\* ------------------------------------------------------------------ paths
RECURSIVE SplitPath(_, _)
\* the segments of s between "/" tokens; cur is the segment being read
SplitPath(s, cur) ==
    IF s = << >> THEN <<cur>>
    ELSE IF Head(s) = "/" THEN <<cur>> \o SplitPath(Tail(s), << >>)
         ELSE SplitPath(Tail(s), Append(cur, Head(s)))

DotDot == <<".", ".">>
Dot == <<".">>

RECURSIVE CleanSegs(_, _)
\* filepath.Clean of a relative path: out is the cleaned prefix
CleanSegs(segs, out) ==
    IF segs = << >> THEN out
    ELSE LET s == Head(segs) IN
         IF s = << >> \/ s = Dot THEN CleanSegs(Tail(segs), out)
         ELSE IF s = DotDot
              THEN IF out # << >> /\ out[Len(out)] # DotDot
                   THEN CleanSegs(Tail(segs), SubSeq(out, 1, Len(out) - 1))
                   ELSE CleanSegs(Tail(segs), Append(out, s))
              ELSE CleanSegs(Tail(segs), Append(out, s))

\* filepath.Join: the elements joined by "/" and cleaned
Join(elems) ==
    CleanSegs(Flatten([i \in 1..Len(elems) |-> SplitPath(elems[i], << >>)]), << >>)

Parent(p) == SubSeq(p, 1, Len(p) - 1)
Prefixes(p) == {SubSeq(p, 1, n) : n \in 0..Len(p)}


\* ------------------------------------------------------------------ state
VARIABLES
    settings,     \* settingsType: Dir, Ip, Url (set by readSettings)
    clock,        \* the latest time.Now() read, in clock units
    ipLimitGLB,   \* ipLimiter: limiter (map address -> *rate.Limiter), mu (holder, 0 = free)
    limiters,     \* the rate.Limiter objects allocated so far, by handle
    fsDirs,       \* directories of the filesystem
    fsFiles,      \* files of the filesystem: path -> content
    pc,           \* per request: where its handler is
    req,          \* per request: the request as read so far
    ip,           \* per request: getRequestError's ip
    lim,          \* per request: getLimiter's lim
    file,         \* per request: readRequest's open file (its path)
    w,            \* per request: the response body written so far
    admission,    \* per request: what getRequestError returned
    invoked,      \* per request: readRequest was called
    touched,      \* per request: it called MkdirAll, Create or Write
    handed,       \* the (address, handle) pairs getLimiter has returned
    checkedAt,    \* per request: the time its limiter.Allow() read, -1 before
    served,       \* the latest static retrieval
    main          \* main: where it is (pc) and what it found at settings.json (jsonFile)

vars == <<settings, clock, ipLimitGLB, limiters, fsDirs, fsFiles, pc, req, ip, lim,
          file, w, admission, invoked, touched, handed, checkedAt, served, main>>

NoReq == [Method |-> "", RemoteAddr |-> << >>, XRealIp |-> NoHeader,
          Dir |-> NoHeader, Filename |-> NoHeader, Body |-> << >>, BodyErr |-> NoErr]

NoServed == [status |-> 0, body |-> << >>]

\* readSettings: the defaults, with whatever allowlist settings.json holds
Init ==
    /\ settings \in {[Dir |-> <<"C:", "/", "ordFiles">>, Ip |-> l,
                      Url |-> <<"http:", "/", "/", "127.0.0.1", "/", "okkam", "/", "files">>]
                     : l \in Allowlists}
    /\ clock = 0
    /\ ipLimitGLB = [limiter |-> << >>, mu |-> 0]
    /\ limiters = << >>
    /\ fsDirs = { << >> }
    /\ fsFiles = << >>
    /\ pc = [r \in Reqs |-> "idle"]
    /\ req = [r \in Reqs |-> NoReq]
    /\ ip = [r \in Reqs |-> << >>]
    /\ lim = [r \in Reqs |-> 0]
    /\ file = [r \in Reqs |-> << >>]
    /\ w = [r \in Reqs |-> << >>]
    /\ admission = [r \in Reqs |-> "pending"]
    /\ invoked = [r \in Reqs |-> FALSE]
    /\ touched = [r \in Reqs |-> FALSE]
    /\ handed = {}
    /\ checkedAt = [r \in Reqs |-> -1]
    /\ served = NoServed
    /\ main = [pc |-> "serving", jsonFile |-> IF settings.Ip = << >> THEN "absent" ELSE "valid"]

getFileDir == settings.Dir
getIPs == settings.Ip
getURL == settings.Url

\* ------------------------------------------------------------ admission
containsAny(l, a) == Len(l) > 0

\* ipList.contains
contains(l, a) == \E i \in 1..Len(l) : l[i] = a

\* net.SplitHostPort: the host is what precedes the last ":"
SplitHostPort(addr) ==
    LET colons == {i \in 1..Len(addr) : addr[i] = ":"} IN
    IF colons = {}
    THEN [host |-> << >>, err |-> <<"address ">> \o addr \o <<": missing port in address">>]
    ELSE LET i == CHOOSE k \in colons : \A j \in colons : j <= k
         IN [host |-> SubSeq(addr, 1, i - 1), err |-> NoErr]

IPv4 == {"10.0.0.1", "10.0.0.2", "10.0.0.3"}

\* net.ParseIP(s).String(): the canonical text of the address, << >> when s is none
ParseIP(s) ==
    IF Len(s) = 1 /\ s[1] \in IPv4 THEN s
    ELSE IF Len(s) = 2 /\ s[1] = "::ffff:" /\ s[2] \in IPv4 THEN <<s[2]>>
    ELSE << >>

\* r.Header.Get: the first value, "" when the header is absent
HeaderGet(h) == IF Len(h) > 0 THEN h[1] ELSE << >>

NotAllowed(a) == <<"IP is not allowed: ">> \o a
RateExceeded(a) == <<"Rate limit exceeded for IP: ">> \o a

\* the method is looked at after the remote address
getRequestErrorMethodLast(q) ==
    LET ips == getIPs
        hp == SplitHostPort(q.RemoteAddr)
    IN
    IF hp.err # NoErr THEN [eR |-> hp.err, ip |-> << >>]
    ELSE IF q.Method # "POST" THEN [eR |-> <<"Only POST allowed">>, ip |-> << >>]
    ELSE IF Len(ips) > 0 /\ ~contains(ips, hp.host)
    THEN [eR |-> NotAllowed(hp.host), ip |-> hp.host]
    ELSE
      LET xri == HeaderGet(q.XRealIp)
          rIP == ParseIP(xri)
      IN
      IF Len(xri) > 0 /\ rIP # << >>
      THEN IF ~contains(ips, rIP)
           THEN [eR |-> NotAllowed(rIP), ip |-> rIP]
           ELSE [eR |-> NoErr, ip |-> rIP]
      ELSE [eR |-> NoErr, ip |-> hp.host]

\* the X-Real-Ip address is checked against the allowlist, the limiter stays keyed
\* by the host of RemoteAddr
getRequestErrorKeepHost(q) ==
    IF q.Method # "POST" THEN [eR |-> <<"Only POST allowed">>, ip |-> << >>]
    ELSE
      LET ips == getIPs
          hp == SplitHostPort(q.RemoteAddr)
      IN
      IF hp.err # NoErr THEN [eR |-> hp.err, ip |-> << >>]
      ELSE IF Len(ips) > 0 /\ ~contains(ips, hp.host)
      THEN [eR |-> NotAllowed(hp.host), ip |-> hp.host]
      ELSE
        LET xri == HeaderGet(q.XRealIp)
            rIP == ParseIP(xri)
        IN
        IF Len(xri) > 0 /\ rIP # << >> /\ ~contains(ips, rIP)
        THEN [eR |-> NotAllowed(rIP), ip |-> rIP]
        ELSE [eR |-> NoErr, ip |-> hp.host]

\* the X-Real-Ip address replaces the host without a second allowlist check
getRequestErrorNoRecheck(q) ==
    IF q.Method # "POST" THEN [eR |-> <<"Only POST allowed">>, ip |-> << >>]
    ELSE
      LET ips == getIPs
          hp == SplitHostPort(q.RemoteAddr)
      IN
      IF hp.err # NoErr THEN [eR |-> hp.err, ip |-> << >>]
      ELSE IF Len(ips) > 0 /\ ~contains(ips, hp.host)
      THEN [eR |-> NotAllowed(hp.host), ip |-> hp.host]
      ELSE
        LET xri == HeaderGet(q.XRealIp)
            rIP == ParseIP(xri)
        IN
        IF Len(xri) > 0 /\ rIP # << >>
        THEN [eR |-> NoErr, ip |-> rIP]
        ELSE [eR |-> NoErr, ip |-> hp.host]

\* getRequestError up to the rate limit: the rejection (eR) or the resolved address
getRequestError(q) ==
    IF q.Method # "POST" THEN [eR |-> <<"Only POST allowed">>, ip |-> << >>]
    ELSE
      LET ips == getIPs
          hp == SplitHostPort(q.RemoteAddr)
      IN
      IF hp.err # NoErr THEN [eR |-> hp.err, ip |-> << >>]
      ELSE IF Len(ips) > 0 /\ ~contains(ips, hp.host)
      THEN [eR |-> NotAllowed(hp.host), ip |-> hp.host]
      ELSE
        LET xri == HeaderGet(q.XRealIp)
            rIP == ParseIP(xri)
        IN
        IF Len(xri) > 0 /\ rIP # << >>
        THEN IF ~contains(ips, rIP)
             THEN [eR |-> NotAllowed(rIP), ip |-> rIP]
             ELSE [eR |-> NoErr, ip |-> rIP]
        ELSE [eR |-> NoErr, ip |-> hp.host]

\* the inputs getRequestError reads on the way it takes; a request is recorded with
\* the inputs that were read, the others left unset
readsRemoteAddr(q) == q.Method = "POST"
readsXRealIp(q) ==
    /\ q.Method = "POST"
    /\ SplitHostPort(q.RemoteAddr).err = NoErr
    /\ ~(Len(getIPs) > 0 /\ ~contains(getIPs, SplitHostPort(q.RemoteAddr).host))

\* sendResponse: one JSON object {key: val} appended to the response body
sendResponse(body, key, val) == Append(body, [kind |-> "json", key |-> key, val |-> val])

\* fmt.Fprint(w, text)
Fprint(body, text) == Append(body, [kind |-> "text", key |-> "", val |-> text])

callsReadRequestAlways(eR) == TRUE

\* requestHandler: readRequest is called only when getRequestError returned no errResp
callsReadRequest(eR) == eR = NoErr

\* requestHandler once getRequestError has returned eR for request r
Admitted(r, eR) ==
    /\ admission' = [admission EXCEPT ![r] = IF eR = NoErr THEN "admitted" ELSE "rejected"]
    /\ w' = [w EXCEPT ![r] = IF eR # NoErr THEN sendResponse(@, "error", eR) ELSE @]
    /\ pc' = [pc EXCEPT ![r] = IF callsReadRequest(eR) THEN "readRequest" ELSE "done"]

\* requestHandler, entered with a new request: getRequestError's checks of the
\* method, the remote address, the allowlist and X-Real-Ip
Arrive(r, Ms, Rs, Xs) ==
    /\ pc[r] = "idle"
    /\ \A k \in 1..(r - 1) : pc[k] # "idle"
    /\ \E m \in Ms, ra \in Rs \cup {<< >>}, x \in Xs \cup {NoHeader} :
         LET q == [NoReq EXCEPT !.Method = m, !.RemoteAddr = ra, !.XRealIp = x]
             g == getRequestError(q)
         IN /\ ra \in (IF readsRemoteAddr(q) THEN Rs ELSE {<< >>})
            /\ x \in (IF readsXRealIp(q) THEN Xs ELSE {NoHeader})
            /\ req' = [req EXCEPT ![r] = q]
            /\ ip' = [ip EXCEPT ![r] = g.ip]
            /\ IF g.eR = NoErr
               THEN /\ pc' = [pc EXCEPT ![r] = "getLimiter"]
                    /\ UNCHANGED <<w, admission>>
               ELSE Admitted(r, g.eR)
    /\ UNCHANGED <<settings, clock, ipLimitGLB, limiters, fsDirs, fsFiles, lim, file,
                   invoked, touched, handed, checkedAt, served>>

\* ------------------------------------------------------- limiter registry
TryLockUnguarded(mu) == TRUE

\* sync.Mutex.Lock proceeds only when the mutex is free
TryLock(mu) == mu = 0

\* getLimiter: ipl.mu.Lock(), then lim, ok := ipl.limiter[ip]  (handle 0: not ok)
Lock(r) ==
    /\ pc[r] = "getLimiter"
    /\ TryLock(ipLimitGLB.mu)
    /\ ipLimitGLB' = [ipLimitGLB EXCEPT !.mu = r]
    /\ lim' = [lim EXCEPT ![r] = IF ip[r] \in DOMAIN ipLimitGLB.limiter
                                 THEN ipLimitGLB.limiter[ip[r]] ELSE 0]
    /\ pc' = [pc EXCEPT ![r] = "return"]
    /\ UNCHANGED <<settings, clock, limiters, fsDirs, fsFiles, req, ip, file, w,
                   admission, invoked, touched, handed, checkedAt, served>>

\* rate.NewLimiter(rateLimit, 1): a full bucket; tokens are counted in 1/Period of a token
NewLimiter == [tokens |-> Burst * Period, last |-> 0]

\* the map is replaced by one that holds the new entry alone
MapPutFresh(m, k, v) == [x \in {k} |-> v]

\* m[k] = v
MapPut(m, k, v) == [x \in DOMAIN m \cup {k} |-> IF x = k THEN v ELSE m[x]]

\* getLimiter: if !ok, allocate and insert; return lim; the deferred Unlock
Return(r) ==
    /\ pc[r] = "return"
    /\ LET h == IF lim[r] = 0 THEN Len(limiters) + 1 ELSE lim[r] IN
       /\ limiters' = IF lim[r] = 0 THEN Append(limiters, NewLimiter) ELSE limiters
       /\ ipLimitGLB' = [limiter |-> IF lim[r] = 0 THEN MapPut(ipLimitGLB.limiter, ip[r], h)
                                     ELSE ipLimitGLB.limiter,
                         mu |-> 0]
       /\ lim' = [lim EXCEPT ![r] = h]
       /\ handed' = handed \cup {<<ip[r], h>>}
    /\ pc' = [pc EXCEPT ![r] = "Allow"]
    /\ UNCHANGED <<settings, clock, fsDirs, fsFiles, req, ip, file, w,
                   admission, invoked, touched, checkedAt, served>>

\* the larger of the two: a bucket is filled up whenever it is looked at
Max(a, b) == IF a < b THEN b ELSE a

Min(a, b) == IF a < b THEN a ELSE b

\* a bucket with any credit lets the call through
LimiterAllowAnyCredit(l, now) ==
    LET tokens == Min(Burst * Period, l.tokens + (now - l.last))
    IN IF tokens >= 1
       THEN [ok |-> TRUE, l |-> [tokens |-> 0, last |-> now]]
       ELSE [ok |-> FALSE, l |-> l]

\* a full token is not enough
LimiterAllowStrict(l, now) ==
    LET tokens == Min(Burst * Period, l.tokens + (now - l.last))
    IN IF tokens > Period
       THEN [ok |-> TRUE, l |-> [tokens |-> tokens - Period, last |-> now]]
       ELSE [ok |-> FALSE, l |-> l]

\* rate.Limiter.Allow at time now: the bucket after the lazy refill, and whether a
\* token was taken (a refused call leaves the bucket as it was)
LimiterAllow(l, now) ==
    LET last == IF now < l.last THEN now ELSE l.last
        tokens == Min(Burst * Period, l.tokens + (now - last))
    IN IF tokens >= Period
       THEN [ok |-> TRUE, l |-> [tokens |-> tokens - Period, last |-> now]]
       ELSE [ok |-> FALSE, l |-> l]

\* time.Now() is monotonic: a reading is no earlier than the one before it
Now == clock..MaxClock

\* getRequestError: limiter.Allow() (which reads the clock), and requestHandler's
\* branch on the result
Allow(r) ==
    /\ pc[r] = "Allow"
    /\ \E now \in Now :
         LET a == LimiterAllow(limiters[lim[r]], now) IN
         /\ clock' = now
         /\ limiters' = [limiters EXCEPT ![lim[r]] = a.l]
         /\ checkedAt' = [checkedAt EXCEPT ![r] = now]
         /\ Admitted(r, IF a.ok THEN NoErr ELSE RateExceeded(ip[r]))
    /\ UNCHANGED <<settings, ipLimitGLB, fsDirs, fsFiles, req, ip, lim, file,
                   invoked, touched, handed, served>>

\* ----------------------------------------------------------------- upload
IsDir(p) == p \in fsDirs
IsFile(p) == p \in DOMAIN fsFiles

\* os.MkdirAll(p): fails when p or one of its parents is a file
MkdirAllErr(p) == \E q \in Prefixes(p) : IsFile(q)

\* os.Create(p): fails when the parent is no directory or p is a directory
CreateErr(p) ==
    IF IsDir(p) THEN <<"open: is a directory">>
    ELSE IF ~IsDir(Parent(p)) THEN <<"open: no such file or directory">>
    ELSE NoErr

\* file.Write(b) on a file opened by os.Create: b is written at offset 0, over
\* whatever the file holds there
WriteAt0(old, b) == b \o SubSeq(old, Len(b) + 1, Len(old))

\* readRequest: dirPath
dirPath(q) == Join(<<getFileDir, q.Dir[1]>>)

\* readRequest: allowedFileName
allowedFileName(q) == PathEscape(q.Filename[1])

\* readRequest: filePath
filePath(q) == Join(<<getFileDir, q.Dir[1], allowedFileName(q)>>)

\* readRequest: the Url of jsonResponse
responseUrl(q) == getURL \o <<"/">> \o q.Dir[1] \o <<"/">> \o allowedFileName(q)

FailedSilent(r, err) ==
    /\ w' = w
    /\ pc' = [pc EXCEPT ![r] = "done"]

\* requestHandler when readRequest returned err: the errResp, then the error text
Failed(r, err) ==
    /\ w' = [w EXCEPT ![r] = Fprint(sendResponse(@, "error", err), err)]
    /\ pc' = [pc EXCEPT ![r] = "done"]

\* the inputs readRequest uses on the way it takes: the Filename header once the
\* directory is there, the body once there is a Filename
usesFilename(q) ==
    /\ q.BodyErr = NoErr
    /\ Len(q.Dir) > 0
    /\ IsDir(dirPath(q)) \/ ~MkdirAllErr(dirPath(q))
usesBody(q) == usesFilename(q) /\ Len(q.Filename) > 0

\* a request without a Filename header is answered with an error
FilenameRequired(r, q) ==
    IF Len(q.Filename) > 0
    THEN /\ pc' = [pc EXCEPT ![r] = "create"]
         /\ UNCHANGED w
    ELSE Failed(r, <<"expected Filename header">>)

\* readRequest: the Filename header: with it the file is created next, without it
\* readRequest returns nil and nothing is sent
Filename(r, q) ==
    /\ pc' = [pc EXCEPT ![r] = IF Len(q.Filename) > 0 THEN "create" ELSE "done"]
    /\ UNCHANGED w

\* readRequest: io.ReadAll, the Dir header, Stat and MkdirAll of dirPath, the
\* Filename header
ReadRequest(r, Os, Ds, Fs, Bs) ==
    /\ pc[r] = "readRequest"
    /\ invoked' = [invoked EXCEPT ![r] = TRUE]
    /\ \E o \in Os, d \in Ds, f \in Fs \cup {NoHeader}, b \in Bs \cup {<< >>} :
         LET q == [req[r] EXCEPT !.Dir = d, !.Filename = f, !.Body = b,
                                 !.BodyErr = IF o = "ok" THEN NoErr ELSE <<o>>] IN
         /\ f \in (IF usesFilename(q) THEN Fs ELSE {NoHeader})
         /\ b \in (IF usesBody(q) THEN Bs ELSE {<< >>})
         /\ req' = [req EXCEPT ![r] = q]
         /\ IF q.BodyErr # NoErr
            THEN /\ Failed(r, q.BodyErr)
                 /\ UNCHANGED <<fsDirs, touched>>
            ELSE IF Len(q.Dir) = 0
            THEN /\ Failed(r, <<"expected Dir header">>)
                 /\ UNCHANGED <<fsDirs, touched>>
            ELSE IF ~IsDir(dirPath(q))
            THEN /\ touched' = [touched EXCEPT ![r] = TRUE]
                 /\ IF MkdirAllErr(dirPath(q))
                    THEN /\ Failed(r, <<"mkdir: not a directory">>)
                         /\ UNCHANGED fsDirs
                    ELSE /\ fsDirs' = fsDirs \cup Prefixes(dirPath(q))
                         /\ Filename(r, q)
            ELSE /\ Filename(r, q)
                 /\ UNCHANGED <<fsDirs, touched>>
    /\ UNCHANGED <<settings, clock, ipLimitGLB, limiters, fsFiles, ip, lim, file,
                   admission, handed, checkedAt, served>>

\* readRequest: os.Create(filePath)
Create(r) ==
    /\ pc[r] = "create"
    /\ touched' = [touched EXCEPT ![r] = TRUE]
    /\ LET p == filePath(req[r]) IN
       IF CreateErr(p) # NoErr
       THEN /\ Failed(r, CreateErr(p))
            /\ UNCHANGED <<fsFiles, file>>
       ELSE /\ fsFiles' = MapPut(fsFiles, p, << >>)
            /\ file' = [file EXCEPT ![r] = p]
            /\ pc' = [pc EXCEPT ![r] = "write"]
            /\ UNCHANGED w
    /\ UNCHANGED <<settings, clock, ipLimitGLB, limiters, fsDirs, req, ip, lim,
                   admission, invoked, handed, checkedAt, served>>

\* readRequest: file.Write(body), the jsonResponse, the deferred Close
Write(r) ==
    /\ pc[r] = "write"
    /\ \/ /\ fsFiles' = [fsFiles EXCEPT ![file[r]] = WriteAt0(@, req[r].Body)]
          /\ w' = [w EXCEPT ![r] = sendResponse(@, "url", responseUrl(req[r]))]
          /\ pc' = [pc EXCEPT ![r] = "done"]
       \/ \E n \in 0..(Len(req[r].Body) - 1) :
            \* the write fails after n bytes
            /\ fsFiles' = [fsFiles EXCEPT ![file[r]] = WriteAt0(@, SubSeq(req[r].Body, 1, n))]
            /\ Failed(r, <<"write: no space left on device">>)
    /\ UNCHANGED <<settings, clock, ipLimitGLB, limiters, fsDirs, req, ip, lim, file,
                   admission, invoked, touched, handed, checkedAt, served>>

\* -------------------------------------------------------------- retrieval
Route == <<"/", "okkam", "/", "files", "/">>

\* the RequestURI of a request for url, the base URL being mapped to the route
RequestURI(url) ==
    SubSeq(Route, 1, Len(Route) - 1) \o SubSeq(url, Len(getURL) + 1, Len(url))

\* http.ServeFile(w, r, p)
ServeFile(p) ==
    IF IsFile(p) THEN [status |-> 200, body |-> fsFiles[p]]
    ELSE IF IsDir(p) THEN [status |-> 200, body |-> <<"listing">>]
    ELSE [status |-> 404, body |-> << >>]

\* requestHandlerOpen: rURL and filePath
openPath(uri) == Join(<<getFileDir, ReplaceAll(uri, Route)>>)

\* the URLs the upload endpoint has returned
ReturnedUrls ==
    UNION {{w[r][i].val : i \in {j \in 1..Len(w[r]) : w[r][j].key = "url"}} : r \in Reqs}

\* the retrieval takes what is left in every bucket
requestHandlerOpenLimited(uri) ==
    /\ served' = ServeFile(openPath(uri))
    /\ limiters' = [h \in DOMAIN limiters |-> [limiters[h] EXCEPT !.tokens = 0]]
    /\ UNCHANGED <<settings, clock, ipLimitGLB, fsDirs, fsFiles, pc, req, ip, lim,
                   file, w, admission, invoked, touched, handed, checkedAt>>

\* requestHandlerOpen
requestHandlerOpen(uri) ==
    /\ served' = ServeFile(openPath(uri))
    /\ UNCHANGED <<settings, clock, ipLimitGLB, limiters, fsDirs, fsFiles, pc, req, ip, lim,
                   file, w, admission, invoked, touched, handed, checkedAt>>


\* what a client may ask the retrieval route for: a returned URL, or a fixed path
RequestURIs == {RequestURI(u) : u \in ReturnedUrls} \cup {Route \o <<"d", "/", "a">>}

\* ---------------------------------------------------------- specification
Step(Ms, Rs, Xs, Os, Ds, Fs, Bs) ==
    \/ \E r \in Reqs : Arrive(r, Ms, Rs, Xs)
    \/ \E r \in Reqs : Lock(r)
    \/ \E r \in Reqs : Return(r)
    \/ \E r \in Reqs : Allow(r)
    \/ \E r \in Reqs : ReadRequest(r, Os, Ds, Fs, Bs)
    \/ \E r \in Reqs : Create(r)
    \/ \E r \in Reqs : Write(r)
    \/ \E u \in RequestURIs : requestHandlerOpen(u)

\* every admission input, plain uploads
Next ==
    /\ Step(Methods, RemoteAddrs, XRealIps, {"ok"}, {NoHeader, <<DirD>>}, {<<NameA>>}, {<<1>>})
    /\ UNCHANGED main

Spec == Init /\ [][Next]_vars

\* plain admission inputs, every upload input
NextUpload ==
    /\ Step({"POST"}, {A1 \o <<":", "4000">>}, {NoHeader},
            ReadOutcomes, DirHeaders, FilenameHeaders, Bodies)
    /\ UNCHANGED main

\* the default settings.json: an empty allowlist
InitUpload == Init /\ settings.Ip = << >>

SpecUpload == InitUpload /\ [][NextUpload]_vars

\* ---------------------------------------------------------------- startup
\* what main finds at settings.json
JsonFiles == {"absent", "directory", "unreadable", "malformed", "valid"}

\* the settings before readSettings: the zero value of settingsType
ZeroSettings == [Dir |-> << >>, Ip |-> << >>, Url |-> << >>]

\* readSettings: the defaults it writes when settings.json is no file
DefaultSettings ==
    [Dir |-> <<"C:", "/", "ordFiles">>, Ip |-> << >>,
     Url |-> <<"http:", "/", "/", "127.0.0.1", "/", "okkam", "/", "files">>]

\* what a well-formed settings.json may hold
FileSettings == {[DefaultSettings EXCEPT !.Ip = l] : l \in Allowlists}

\* readSettings on settings.json in condition jf; createErr and writeErr are the
\* outcomes of os.Create and file.Write of the defaults, fromFile what Unmarshal
\* stores from a well-formed file.  In the branch of an existing file the errors of
\* os.ReadFile and json.Unmarshal are assigned to err, and what is tested before
\* each return is errInfo, the error of os.Stat, which is nil in that branch.
readSettings(jf, createErr, writeErr, fromFile) ==
    LET errInfo == IF jf = "absent" THEN <<"stat: no such file">> ELSE NoErr
        isDir == jf = "directory"
    IN
    IF ~(errInfo = NoErr /\ ~isDir)
    THEN IF isDir THEN [err |-> <<"open: is a directory">>, settings |-> DefaultSettings]
         ELSE IF createErr # NoErr THEN [err |-> createErr, settings |-> DefaultSettings]
         ELSE IF errInfo # NoErr THEN [err |-> writeErr, settings |-> DefaultSettings]
         ELSE [err |-> NoErr, settings |-> DefaultSettings]
    ELSE LET readErr == IF jf = "unreadable" THEN <<"read: permission denied">> ELSE NoErr
             parseErr == IF jf \in {"unreadable", "malformed"}
                         THEN <<"invalid character">> ELSE NoErr
             loaded == IF parseErr = NoErr THEN fromFile ELSE settings
         IN IF errInfo # NoErr THEN [err |-> readErr, settings |-> settings]
            ELSE IF errInfo # NoErr THEN [err |-> parseErr, settings |-> loaded]
            ELSE [err |-> NoErr, settings |-> loaded]

IOErrors == {NoErr, <<"no space left on device">>}

\* main: openLogFile, and log.Fatal when it fails
openLogFile ==
    /\ main.pc = "openLogFile"
    /\ \E err \in IOErrors :
         main' = [main EXCEPT !.pc = IF err # NoErr THEN "exited" ELSE "readSettings"]
    /\ UNCHANGED <<settings, clock, ipLimitGLB, limiters, fsDirs, fsFiles, pc, req, ip, lim,
                   file, w, admission, invoked, touched, handed, checkedAt, served>>

\* main: readSettings, and log.Fatal when it returns an error
ReadSettings ==
    /\ main.pc = "readSettings"
    /\ \E createErr \in IOErrors, writeErr \in IOErrors, fromFile \in FileSettings :
         LET s == readSettings(main.jsonFile, createErr, writeErr, fromFile) IN
         /\ settings' = s.settings
         /\ main' = [main EXCEPT !.pc = IF s.err # NoErr THEN "exited" ELSE "ListenAndServe"]
    /\ UNCHANGED <<clock, ipLimitGLB, limiters, fsDirs, fsFiles, pc, req, ip, lim,
                   file, w, admission, invoked, touched, handed, checkedAt, served>>

\* main: the routes are registered and http.ListenAndServe binds the port, or fails
ListenAndServe ==
    /\ main.pc = "ListenAndServe"
    /\ \E err \in {NoErr, <<"listen: address already in use">>} :
         main' = [main EXCEPT !.pc = IF err # NoErr THEN "exited" ELSE "serving"]
    /\ UNCHANGED <<settings, clock, ipLimitGLB, limiters, fsDirs, fsFiles, pc, req, ip, lim,
                   file, w, admission, invoked, touched, handed, checkedAt, served>>

\* requests are handled once the port is bound
Serve ==
    /\ main.pc = "serving"
    /\ Step({"POST"}, {A1 \o <<":", "4000">>}, {NoHeader},
            {"ok"}, {NoHeader, <<DirD>>}, {<<NameA>>}, {<<1>>})
    /\ UNCHANGED main

NextStartup ==
    \/ openLogFile
    \/ ReadSettings
    \/ ListenAndServe
    \/ Serve

\* the process at the entry of main
InitStartup ==
    /\ settings = ZeroSettings
    /\ clock = 0
    /\ ipLimitGLB = [limiter |-> << >>, mu |-> 0]
    /\ limiters = << >>
    /\ fsDirs = { << >> }
    /\ fsFiles = << >>
    /\ pc = [r \in Reqs |-> "idle"]
    /\ req = [r \in Reqs |-> NoReq]
    /\ ip = [r \in Reqs |-> << >>]
    /\ lim = [r \in Reqs |-> 0]
    /\ file = [r \in Reqs |-> << >>]
    /\ w = [r \in Reqs |-> << >>]
    /\ admission = [r \in Reqs |-> "pending"]
    /\ invoked = [r \in Reqs |-> FALSE]
    /\ touched = [r \in Reqs |-> FALSE]
    /\ handed = {}
    /\ checkedAt = [r \in Reqs |-> -1]
    /\ served = NoServed
    /\ main \in {[pc |-> "openLogFile", jsonFile |-> jf] : jf \in JsonFiles}

SpecStartup == InitStartup /\ [][NextStartup]_vars


\* ----------------------------------------------------------------- claims
ErrorObject(msg) == [kind |-> "json", key |-> "error", val |-> msg]

\* the string s has a as a substring
Mentions(s, a) == \E i \in 1..Len(s) : SubSeq(s, i, i + Len(a) - 1) = a

Parseable(q) == SplitHostPort(q.RemoteAddr).err = NoErr

Allowlisted(a) == a \in {getIPs[i] : i \in 1..Len(getIPs)}

\* the address a request is judged by: the X-Real-Ip address when the header holds
\* one, the host of RemoteAddr otherwise
Resolved(q) ==
    IF ParseIP(HeaderGet(q.XRealIp)) # << >>
    THEN ParseIP(HeaderGet(q.XRealIp))
    ELSE SplitHostPort(q.RemoteAddr).host

\* C1: a request that getRequestError rejected never reaches readRequest: its
\* handler has returned, readRequest was not called for it and it made no
\* directory and created or wrote no file.
C1_RejectedNeverUploads ==
    \A r \in Reqs :
        admission[r] = "rejected" =>
            /\ pc[r] = "done"
            /\ ~invoked[r]
            /\ ~touched[r]
            /\ file[r] = << >>

\* a request was rejected while another one went on to write its file
C1_Witness ==
    \E r, o \in Reqs :
        /\ admission[r] = "rejected"
        /\ pc[r] = "done"
        /\ admission[o] = "admitted"
        /\ touched[o]

\* C2: with a non-empty allowlist, a POST request whose resolved address is not in
\* the allowlist is rejected with an error that names that address, and
\* readRequest is not called for it.
C2_OutsiderRejected ==
    \A r \in Reqs :
        ( /\ pc[r] # "idle"
          /\ Len(getIPs) > 0
          /\ req[r].Method = "POST"
          /\ Parseable(req[r])
          /\ ~Allowlisted(Resolved(req[r])) )
        => /\ admission[r] = "rejected"
           /\ Len(w[r]) = 1
           /\ w[r][1].key = "error"
           /\ Mentions(w[r][1].val, Resolved(req[r]))
           /\ ~invoked[r]

\* a request from an allowed remote address was rejected for the address its
\* X-Real-Ip header put in its place
C2_Witness ==
    \E r \in Reqs :
        /\ Len(getIPs) > 0
        /\ req[r].Method = "POST"
        /\ Allowlisted(SplitHostPort(req[r].RemoteAddr).host)
        /\ req[r].XRealIp = <<A3>>
        /\ w[r] = <<ErrorObject(NotAllowed(A3))>>

\* C3: with an empty allowlist, a POST request with a parseable remote address is
\* rejected by nothing but the rate limit, whatever its X-Real-Ip header.
C3_EmptyAllowsAll ==
    \A r \in Reqs :
        ( /\ Len(getIPs) = 0
          /\ req[r].Method = "POST"
          /\ Parseable(req[r])
          /\ admission[r] = "rejected" )
        => w[r] = <<ErrorObject(RateExceeded(ip[r]))>>

Abs(n) == IF n < 0 THEN -n ELSE n

\* C4: once a request of an address is admitted at time t, a request of the same
\* address whose rate-limit check falls less than 1/rate from t is rejected with
\* the rate-limit error naming the address: no two requests of one address are
\* admitted less than 1/rate apart.
C4_OnePerPeriod ==
    \A r, o \in Reqs :
        ( /\ r # o
          /\ ip[r] = ip[o]
          /\ admission[r] = "admitted"
          /\ checkedAt[o] >= 0
          /\ Abs(checkedAt[o] - checkedAt[r]) < Period )
        => /\ admission[o] = "rejected"
           /\ pc[o] = "done"
           /\ w[o] = <<ErrorObject(RateExceeded(ip[o]))>>

\* a request was refused half a period after the admission of the same address
C4_Witness ==
    \E r, o \in Reqs :
        /\ ip[r] = ip[o]
        /\ admission[r] = "admitted"
        /\ checkedAt[o] - checkedAt[r] = 1
        /\ w[o] = <<ErrorObject(RateExceeded(ip[o]))>>

\* C5: a request whose rate-limit check is more than 1/rate away from every other
\* check of the same address (the first check of an address among them) passes
\* the rate limit, whatever other addresses do.
C5_SpacedAdmitted ==
    \A r \in Reqs :
        ( /\ checkedAt[r] >= 0
          /\ \A o \in Reqs \ {r} :
                (ip[o] = ip[r] /\ checkedAt[o] >= 0)
                    => Abs(checkedAt[r] - checkedAt[o]) > Period )
        => admission[r] = "admitted"

\* two requests of one address, checked more than 1/rate apart, both admitted
C5_Witness ==
    \E r, o \in Reqs :
        /\ ip[r] = ip[o]
        /\ checkedAt[r] >= 0
        /\ checkedAt[o] - checkedAt[r] > Period
        /\ admission[r] = "admitted"
        /\ admission[o] = "admitted"

\* C6: every getLimiter call for one address returns the same limiter, however
\* the calls interleave, and the registry holds that limiter.
C6_OneLimiterPerAddress ==
    /\ \A p, q \in handed : p[1] = q[1] => p[2] = q[2]
    /\ \A p \in handed :
          /\ p[1] \in DOMAIN ipLimitGLB.limiter
          /\ ipLimitGLB.limiter[p[1]] = p[2]

\* two requests of one address, both before their rate-limit check, hold the
\* same limiter; the address had none when the first of them arrived
C6_Witness ==
    \E r, o \in Reqs :
        /\ r # o
        /\ ip[r] = ip[o]
        /\ pc[r] = "Allow"
        /\ pc[o] = "Allow"
        /\ lim[r] = lim[o]
        /\ lim[r] # 0


Chunks(r) == {w[r][i] : i \in 1..Len(w[r])}

\* C7: the response body of a handled request is exactly one JSON object, a url
\* object or an error object, never empty and with nothing after the object.
C7_OneJsonObject ==
    \A r \in Reqs :
        pc[r] = "done" =>
            /\ Len(w[r]) = 1
            /\ w[r][1].kind = "json"
            /\ w[r][1].key \in {"url", "error"}

ExpectedDir == <<"expected Dir header">>

\* C8 as claimed: an admitted request without a Dir header is answered with the
\* error "expected Dir header" and makes no directory and no file.
C8_MissingDirAsClaimed ==
    \A r \in Reqs :
        ( /\ pc[r] = "done"
          /\ admission[r] = "admitted"
          /\ invoked[r]
          /\ Len(req[r].Dir) = 0 )
        => /\ ErrorObject(ExpectedDir) \in Chunks(r)
           /\ ~touched[r]
           /\ file[r] = << >>

\* C8 amended: an admitted request without a Dir header makes no directory and no
\* file, and is answered with the error "expected Dir header" when its body was
\* read, with the error of the read when reading its body failed.
C8_MissingDir ==
    \A r \in Reqs :
        ( /\ pc[r] = "done"
          /\ admission[r] = "admitted"
          /\ invoked[r]
          /\ Len(req[r].Dir) = 0 )
        => /\ ErrorObject(IF req[r].BodyErr = NoErr THEN ExpectedDir ELSE req[r].BodyErr)
                \in Chunks(r)
           /\ ~touched[r]
           /\ file[r] = << >>

\* a request without a Dir header whose body was read got the error, and the
\* filesystem is as it was at the start
C8_Witness ==
    \E r \in Reqs :
        /\ pc[r] = "done"
        /\ admission[r] = "admitted"
        /\ Len(req[r].Dir) = 0
        /\ req[r].BodyErr = NoErr
        /\ ErrorObject(ExpectedDir) \in Chunks(r)
        /\ fsDirs = { << >> }
        /\ fsFiles = << >>

BasePath == Join(<<getFileDir>>)

\* C9: every file the uploads create lies under the base directory.
C9_NoFileOutsideBase ==
    \A p \in DOMAIN fsFiles : Len(p) > Len(BasePath) /\ HasPrefix(p, BasePath)

\* C10: once an upload has returned its URL, and no other upload went to the same
\* path, retrieving that URL yields the uploaded bytes.
C10_RoundTrip ==
    \A r \in Reqs :
        ( /\ pc[r] = "done"
          /\ Len(w[r]) = 1
          /\ w[r][1].key = "url"
          /\ \A o \in Reqs \ {r} : file[o] # file[r] )
        => ServeFile(openPath(RequestURI(w[r][1].val))) = [status |-> 200, body |-> req[r].Body]

\* C11: the port is bound and requests are served only with settings that were
\* loaded: settings.json was absent and the defaults were written, or it was read
\* and parsed.
C11_NoPartialStartup ==
    main.pc \in {"ListenAndServe", "serving"} =>
        /\ main.jsonFile \in {"absent", "valid"}
        /\ settings \in FileSettings

\* the upload of request r has completed: its file was written and its URL returned
Uploaded(r) ==
    /\ pc[r] = "done"
    /\ file[r] # << >>
    /\ Len(w[r]) = 1
    /\ w[r][1].key = "url"

\* C12: when two uploads of different bodies to one path have both completed, the
\* file holds the body of one of them, however their os.Create and Write steps
\* interleaved.
C12_LastWriteWins ==
    \A r, o \in Reqs :
        ( /\ r # o
          /\ Uploaded(r)
          /\ Uploaded(o)
          /\ file[r] = file[o]
          /\ req[r].Body # req[o].Body )
        => fsFiles[file[r]] \in {req[r].Body, req[o].Body}

\* the first check before the rate limit that a request fails, the checks taken in
\* the order method, remote address, allowlist on the host, allowlist on the
\* X-Real-Ip address; NoErr when it fails none
FirstFailure(q) ==
    IF q.Method # "POST" THEN <<"Only POST allowed">>
    ELSE IF ~Parseable(q) THEN SplitHostPort(q.RemoteAddr).err
    ELSE IF Len(getIPs) > 0 /\ ~Allowlisted(SplitHostPort(q.RemoteAddr).host)
    THEN NotAllowed(SplitHostPort(q.RemoteAddr).host)
    ELSE IF ParseIP(HeaderGet(q.XRealIp)) # << >> /\ ~Allowlisted(ParseIP(HeaderGet(q.XRealIp)))
    THEN NotAllowed(ParseIP(HeaderGet(q.XRealIp)))
    ELSE NoErr

\* the requests that got a limiter from the registry
GotLimiter == {r \in Reqs : pc[r] \notin {"idle", "getLimiter", "return"} /\ lim[r] # 0}

\* C13: a request is rejected with the error of the first check it fails, in the
\* order method, remote address, allowlist, X-Real-Ip; a request that fails one of
\* them got no limiter and made no rate-limit check, every entry of the registry
\* was made for a request that failed none of them, and a limiter short of its
\* full bucket was charged by such a request.
C13_FirstFailureStops ==
    /\ \A r \in Reqs :
          (pc[r] # "idle" /\ FirstFailure(req[r]) # NoErr)
          => /\ admission[r] = "rejected"
             /\ pc[r] = "done"
             /\ w[r] = <<ErrorObject(FirstFailure(req[r]))>>
             /\ lim[r] = 0
             /\ checkedAt[r] = -1
    /\ \A k \in DOMAIN ipLimitGLB.limiter :
          \E r \in GotLimiter : FirstFailure(req[r]) = NoErr /\ ip[r] = k
    /\ \A h \in DOMAIN limiters :
          limiters[h] # NewLimiter =>
              \E r \in GotLimiter :
                  FirstFailure(req[r]) = NoErr /\ lim[r] = h /\ checkedAt[r] >= 0

\* a request from an allowed host was rejected for its X-Real-Ip address after
\* another request was admitted: the registry holds the one limiter of the admitted
\* request, and nothing for the rejected address
C13_Witness ==
    \E r, o \in Reqs :
        /\ Len(getIPs) > 0
        /\ admission[o] = "admitted"
        /\ req[r].XRealIp = <<A3>>
        /\ w[r] = <<ErrorObject(NotAllowed(A3))>>
        /\ DOMAIN ipLimitGLB.limiter = {ip[o]}
        /\ Len(limiters) = 1

\* the request got as far as the X-Real-Ip header: a POST whose remote address
\* parsed and passed the allowlist
ReachedXRealIp(r) ==
    /\ pc[r] # "idle"
    /\ req[r].Method = "POST"
    /\ Parseable(req[r])
    /\ Len(getIPs) = 0 \/ Allowlisted(SplitHostPort(req[r].RemoteAddr).host)

\* C14: the identity of a request is the address of its X-Real-Ip header when the
\* header holds one, the host of RemoteAddr otherwise: the allowlist is checked
\* against it, the limiter the request gets is the registry's entry for it, the
\* token it takes comes from that limiter, and the registry has no entry for
\* another address.
C14_IdentityIsRealIp ==
    /\ \A r \in Reqs :
          ReachedXRealIp(r) =>
              /\ ip[r] = Resolved(req[r])
              /\ (Len(getIPs) > 0 /\ ~Allowlisted(Resolved(req[r])))
                 => /\ w[r] = <<ErrorObject(NotAllowed(Resolved(req[r])))>>
                    /\ lim[r] = 0
              /\ r \in GotLimiter
                 => /\ Resolved(req[r]) \in DOMAIN ipLimitGLB.limiter
                    /\ ipLimitGLB.limiter[Resolved(req[r])] = lim[r]
              /\ admission[r] = "admitted"
                 => limiters[ipLimitGLB.limiter[Resolved(req[r])]].last >= checkedAt[r]
              /\ (admission[r] = "rejected" /\ checkedAt[r] >= 0)
                 => w[r] = <<ErrorObject(RateExceeded(Resolved(req[r])))>>
    /\ DOMAIN ipLimitGLB.limiter \subseteq {Resolved(req[r]) : r \in GotLimiter}

\* a request from one host was admitted under the address of its X-Real-Ip header,
\* and a request from the same host without the header under the host: each took
\* its token at the same time from its own limiter
C14_Witness ==
    \E r, o \in Reqs :
        /\ req[r].RemoteAddr = req[o].RemoteAddr
        /\ req[r].XRealIp = <<A3>>
        /\ req[o].XRealIp = NoHeader
        /\ admission[r] = "admitted"
        /\ admission[o] = "admitted"
        /\ checkedAt[r] = checkedAt[o]
        /\ ipLimitGLB.limiter[A3] = lim[r]
        /\ ipLimitGLB.limiter[A1] = lim[o]
        /\ lim[r] # lim[o]

MkdirErr == <<"mkdir: not a directory">>

\* C15 as claimed: an admitted request with a Dir header and no Filename header
\* gets an empty response, and creates and writes no file.
C15_NoFilenameAsClaimed ==
    \A r \in Reqs :
        ( /\ pc[r] = "done"
          /\ admission[r] = "admitted"
          /\ Len(req[r].Dir) > 0
          /\ Len(req[r].Filename) = 0 )
        => /\ w[r] = << >>
           /\ file[r] = << >>

\* C15 amended: an admitted request with a Dir header and no Filename header
\* creates and writes no file; it gets an empty response when its body was read
\* and its directory exists or was made, and the error of the read or of MkdirAll
\* otherwise.
C15_NoFilename ==
    \A r \in Reqs :
        ( /\ pc[r] = "done"
          /\ admission[r] = "admitted"
          /\ Len(req[r].Dir) > 0
          /\ Len(req[r].Filename) = 0 )
        => /\ file[r] = << >>
           /\ IF req[r].BodyErr # NoErr
              THEN w[r] = Fprint(<<ErrorObject(req[r].BodyErr)>>, req[r].BodyErr)
              ELSE \/ w[r] = << >> /\ IsDir(dirPath(req[r]))
                   \/ w[r] = Fprint(<<ErrorObject(MkdirErr)>>, MkdirErr)

\* a request with Dir: d and no Filename got an empty response: its directory was
\* made and no file is in it
C15_Witness ==
    \E r \in Reqs :
        /\ pc[r] = "done"
        /\ admission[r] = "admitted"
        /\ req[r].Dir = <<DirD>>
        /\ req[r].Filename = NoHeader
        /\ req[r].BodyErr = NoErr
        /\ touched[r]
        /\ w[r] = << >>
        /\ IsDir(dirPath(req[r]))
        /\ fsFiles = << >>

\* C16: the registry only grows: no step removes an entry or gives an address
\* another limiter, no limiter is dropped, a limiter's bucket changes only by an
\* Allow call on it, and a getLimiter call for an address the registry holds
\* returns the registry's limiter, its bucket as the earlier calls left it.
C16_NeverEvicted ==
    [][ /\ DOMAIN ipLimitGLB.limiter \subseteq DOMAIN ipLimitGLB'.limiter
        /\ \A k \in DOMAIN ipLimitGLB.limiter : ipLimitGLB'.limiter[k] = ipLimitGLB.limiter[k]
        /\ Len(limiters') >= Len(limiters)
        /\ \A h \in DOMAIN limiters :
              limiters'[h] # limiters[h] =>
                  \E r \in Reqs : pc[r] = "Allow" /\ pc'[r] # "Allow" /\ lim[r] = h
        /\ \A r \in Reqs :
              (pc[r] = "return" /\ pc'[r] = "Allow" /\ ip[r] \in DOMAIN ipLimitGLB.limiter)
              => /\ lim'[r] = ipLimitGLB.limiter[ip[r]]
                 /\ limiters'[lim'[r]] = limiters[ipLimitGLB.limiter[ip[r]]]
      ]_vars

\* a second request of an address got from the registry the limiter that the first
\* request of the address had emptied
C16_Witness ==
    \E r, o \in Reqs :
        /\ r # o
        /\ ip[r] = ip[o]
        /\ admission[r] = "admitted"
        /\ pc[o] = "Allow"
        /\ lim[o] = lim[r]
        /\ limiters[lim[o]].tokens < Period
        /\ ipLimitGLB.limiter[ip[o]] = lim[o]

\* C17: a retrieval goes through no admission check: the step that serves it
\* leaves the registry, every limiter and the clock as they were, and changes no
\* upload request's admission, response or place in its handler.
C17_RetrievalUnchecked ==
    [][ served' # served =>
            UNCHANGED <<ipLimitGLB, limiters, clock, handed, pc, req, ip, lim,
                        admission, checkedAt, w>>
      ]_vars

\* with an allowlist in force and an upload of another address rejected for it,
\* the uploaded file was retrieved, and the one bucket is as the upload left it
C17_Witness ==
    /\ Len(getIPs) > 0
    /\ served = [status |-> 200, body |-> <<1>>]
    /\ \E r \in Reqs : w[r] = <<ErrorObject(NotAllowed(A2))>>
    /\ Len(limiters) = 1
    /\ limiters[1].tokens = 0

\* C18: with a non-empty allowlist every address the registry holds a limiter for
\* is in the allowlist, so the registry holds no more limiters than the allowlist
\* has entries.
C18_RegistryWithinAllowlist ==
    Len(getIPs) > 0 =>
        /\ \A k \in DOMAIN ipLimitGLB.limiter : Allowlisted(k)
        /\ Cardinality(DOMAIN ipLimitGLB.limiter) <= Len(getIPs)
        /\ Len(limiters) <= Len(getIPs)

\* under the allowlist of one address, a request whose X-Real-Ip header holds that
\* address in another notation was admitted and one whose header holds another
\* address was rejected: the registry holds the allowed address alone
C18_Witness ==
    \E r, o \in Reqs :
        /\ getIPs = <<A1>>
        /\ req[r].XRealIp = << <<"::ffff:", "10.0.0.1">> >>
        /\ admission[r] = "admitted"
        /\ req[o].XRealIp = <<A3>>
        /\ admission[o] = "rejected"
        /\ DOMAIN ipLimitGLB.limiter = {A1}

\* the upload of request r was attempted and failed
UploadFailed(r) ==
    /\ pc[r] = "done"
    /\ admission[r] = "admitted"
    /\ invoked[r]
    /\ \E c \in Chunks(r) : c.kind = "json" /\ c.key = "error"

\* C19: the token an admitted request took stays taken when its upload fails: a
\* request of the same address whose rate-limit check comes less than 1/rate
\* after the check of the failed one is rejected by the rate limit and uploads
\* nothing.
C19_NoRefund ==
    \A r, o \in Reqs :
        ( /\ r # o
          /\ UploadFailed(r)
          /\ ip[o] = ip[r]
          /\ checkedAt[o] >= checkedAt[r]
          /\ checkedAt[o] - checkedAt[r] < Period )
        => /\ admission[o] = "rejected"
           /\ w[o] = <<ErrorObject(RateExceeded(ip[o]))>>
           /\ ~invoked[o]

\* a request was admitted and its upload failed for the missing Dir header; the
\* next request of the address, checked half a period later, was rejected by the
\* rate limit
C19_Witness ==
    \E r, o \in Reqs :
        /\ r < o
        /\ UploadFailed(r)
        /\ ErrorObject(ExpectedDir) \in Chunks(r)
        /\ ip[o] = ip[r]
        /\ checkedAt[o] - checkedAt[r] = 1
        /\ w[o] = <<ErrorObject(RateExceeded(ip[o]))>>

====
